---- MODULE Spec2Model ----
(***************************************************************************)
(* Two development static-file servers built on Python's http.server and   *)
(* socketserver:                                                           *)
(*   Variant A  src/dev/tools/server.py  CustomHTTPRequestHandler          *)
(*   Variant B  src/server.py            PWAHTTPRequestHandler             *)
(* The model covers main() (bind, serve_forever, interrupt, exit) and the  *)
(* handling of one HTTP/1.x request line per connection: parse_request,    *)
(* method dispatch, do_GET / do_HEAD, send_head, guess_type, send_error    *)
(* and the overridden end_headers and log_message.  The inherited library  *)
(* steps are modelled as far as the overrides depend on them (the order of *)
(* send_response, send_header and end_headers, and which handler           *)
(* attributes exist at each point).  Requests without a version token      *)
(* (HTTP/0.9 simple requests, whose replies have no header section at all) *)
(* are outside the model.                                                  *)
(***************************************************************************)
EXTENDS Integers, Sequences, FiniteSets, TLC

VARIABLES variant, pc, sock, out, exitCode, bindErr, backlog, active, h, prev

vars == <<variant, pc, sock, out, exitCode, bindErr, backlog, active, h, prev>>

\* Size of the listening socket's queue of connections not yet accepted.
MaxBacklog == 1

----------------------------------------------------------------------------
(* Request paths, as sequences of characters.                              *)

P_root     == <<"/">>
P_main     == <<"/", "m", "a", "i", "n", ".", "h", "t", "m", "l">>
P_app_js   == <<"/", "a", "p", "p", ".", "j", "s">>
P_app_js_q == <<"/", "a", "p", "p", ".", "j", "s", "?", "v", "=", "1">>
P_app_ts   == <<"/", "a", "p", "p", ".", "t", "s">>
P_data     == <<"/", "d", "a", "t", "a", ".", "j", "s", "o", "n">>
P_icon     == <<"/", "i", "c", "o", "n", ".", "s", "v", "g">>
P_style    == <<"/", "s", "t", "y", "l", "e", ".", "c", "s", "s">>
P_png      == <<"/", "a", ".", "p", "n", "g">>
P_jpg      == <<"/", "a", ".", "j", "p", "g">>
P_lib      == <<"/", "l", "i", "b">>
P_lib_     == <<"/", "l", "i", "b", "/">>

Paths == {P_root, P_main, P_app_js, P_app_js_q, P_app_ts, P_data, P_icon,
          P_style, P_png, P_jpg, P_lib, P_lib_}

S_js   == <<".", "j", "s">>
S_ts   == <<".", "t", "s">>
S_json == <<".", "j", "s", "o", "n">>
S_svg  == <<".", "s", "v", "g">>
S_css  == <<".", "c", "s", "s">>
S_png  == <<".", "p", "n", "g">>
S_jpg  == <<".", "j", "p", "g">>
S_html == <<".", "h", "t", "m", "l">>
S_slash == <<"/">>
IndexHtml == <<"i", "n", "d", "e", "x", ".", "h", "t", "m", "l">>

\* str.endswith
EndsWith(p, s) ==
    /\ Len(p) >= Len(s)
    /\ SubSeq(p, Len(p) - Len(s) + 1, Len(p)) = s

\* str.endswith with a tuple of suffixes
EndsWithAny(p, ss) == \E s \in ss : EndsWith(p, s)

\* The part of a request target before the first "?" or "#", as
\* translate_path and urlsplit(...).path compute it.
RECURSIVE PathComponent(_)
PathComponent(p) ==
    IF p = <<>> \/ Head(p) \in {"?", "#"} THEN <<>>
    ELSE <<Head(p)>> \o PathComponent(Tail(p))

----------------------------------------------------------------------------
(* Response headers: sequences of <<name, value>> in the order sent.       *)

\* Mutant of CORS: the third send_header call is missing.
CORS_TwoOnly ==
    << <<"Access-Control-Allow-Origin", "*">>,
       <<"Access-Control-Allow-Methods", "GET, POST, OPTIONS">> >>

CORS ==
    << <<"Access-Control-Allow-Origin", "*">>,
       <<"Access-Control-Allow-Methods", "GET, POST, OPTIONS">>,
       <<"Access-Control-Allow-Headers", "Content-Type">> >>

\* Variant A, end_headers: Cache-Control by suffix of self.path.
CacheControlA(path) ==
    IF EndsWith(path, S_js) THEN << <<"Cache-Control", "no-cache">> >>
    ELSE <<>>

\* Variant B, end_headers: Content-Type by suffix of self.path.
ContentTypeB(path) ==
    IF EndsWith(path, S_json) THEN << <<"Content-Type", "application/json">> >>
    ELSE IF EndsWith(path, S_js)
         THEN << <<"Content-Type", "application/javascript">> >>
    ELSE IF EndsWith(path, S_svg)
         THEN << <<"Content-Type", "image/svg+xml">> >>
    ELSE <<>>

\* Mutant of CacheControlB: the .html branch is missing.
CacheControlB_NoHtml(path) ==
    IF EndsWithAny(path, {S_js, S_css, S_svg, S_png, S_jpg})
    THEN << <<"Cache-Control", "public, max-age=31536000">> >>
    ELSE <<>>

\* Variant B, end_headers: Cache-Control by suffix of self.path.
CacheControlB(path) ==
    IF EndsWithAny(path, {S_js, S_css, S_svg, S_png, S_jpg})
    THEN << <<"Cache-Control", "public, max-age=31536000">> >>
    ELSE IF EndsWith(path, S_html)
         THEN << <<"Cache-Control", "no-cache">> >>
    ELSE <<>>

\* end_headers of Variant A: the headers it adds before the inherited
\* end_headers flushes the buffer.
end_headers_A(path) == CORS \o CacheControlA(path)

\* end_headers of Variant B.
end_headers_B(path) == CORS \o ContentTypeB(path) \o CacheControlB(path)

PolicyHeaders(v, path) ==
    IF v = "A" THEN end_headers_A(path) ELSE end_headers_B(path)

----------------------------------------------------------------------------
(* Requests and the environment a request is served in.                    *)

Methods == {"GET", "HEAD", "POST"}

\* "HTTP/1.1" parses; "HTTP/abc" makes parse_request answer 400 before it
\* has assigned self.command and self.path.
Versions == {"HTTP/1.1", "HTTP/abc"}

Requests == [method : Methods, target : Paths, version : Versions]

\* What the base directory holds when the request is served: the kind of
\* the requested name, and whether the requested directory has an
\* index.html.  The base directory itself ("/") always exists.
FileSystems == [index : BOOLEAN, other : {"file", "missing", "dir"}]

\* Results the inherited (mimetypes-based) guess_type can give; a str.
GenericTypes == {"text/javascript", "application/octet-stream"}

Kind(fsys, comp) == IF comp = P_root THEN "dir" ELSE fsys.other

\* The methods the handler class has a do_ method for.
Supported == {"GET", "HEAD"}

\* The file system and the MIME database are consulted by send_head only;
\* a request answered before send_head is served the same whatever they
\* hold, and is given one environment.
Inputs ==
    {i \in [req : Requests, fsys : FileSystems, generic : GenericTypes] :
        (i.req.version = "HTTP/1.1" /\ i.req.method \in Supported)
        \/ (i.fsys = [index |-> FALSE, other |-> "missing"]
            /\ i.generic = "application/octet-stream")}

----------------------------------------------------------------------------
(* Logging.  Variant B overrides log_message (stdout, "[time] text");      *)
(* Variant A inherits it (stderr, "client - - [time] text").               *)

\* Mutant of log_message: Variant B's override prints the text alone.
log_message_NoTime(v, text) ==
    [stream |-> IF v = "A" THEN "stderr" ELSE "stdout",
     client |-> (v = "A"),
     timestamp |-> (v = "A"),
     text |-> text]

log_message(v, text) ==
    [stream |-> IF v = "A" THEN "stderr" ELSE "stdout",
     client |-> (v = "A"),
     timestamp |-> TRUE,
     text |-> text]

\* log_request, called by send_response
log_request(v, req, code) ==
    log_message(v, [kind |-> "access", requestline |-> req, status |-> code])

\* log_error, called by send_error
log_error(v, code, message) ==
    log_message(v, [kind |-> "error", status |-> code, message |-> message])

----------------------------------------------------------------------------
(* Building a response.  A response under construction is a record         *)
(* [status, headers, logs]; nothing reaches the client before end_headers  *)
(* flushes the header buffer.                                              *)

send_response(v, req, code) ==
    [status |-> code,
     headers |-> << <<"Server", "SimpleHTTP">>, <<"Date", "now">> >>,
     logs |-> <<log_request(v, req, code)>>]

send_header(pre, name, value) ==
    [pre EXCEPT !.headers = Append(@, <<name, value>>)]

\* What follows the header section: a file's bytes, a directory listing,
\* the error page, or nothing.
Body(kind, path) == [kind |-> kind, path |-> path]

\* The handler raised: nothing was written to the client.
Crash(exc, status, logs) ==
    [sent |-> FALSE, exc |-> exc, status |-> status, headers |-> <<>>,
     body |-> Body("none", <<>>), logs |-> logs]

\* The overridden end_headers, then the inherited one.  Both variants read
\* self.path after the three CORS send_header calls; when the attribute
\* does not exist that read raises AttributeError and the buffer is never
\* flushed.
end_headers(v, hd, pre, body) ==
    IF ~hd.hasPath THEN Crash("AttributeError", pre.status, pre.logs)
    ELSE [sent |-> TRUE, exc |-> "none", status |-> pre.status,
          headers |-> pre.headers \o PolicyHeaders(v, hd.path),
          body |-> body, logs |-> pre.logs]

send_error(v, hd, req, code, message) ==
    LET r0 == send_response(v, req, code)
        r1 == [r0 EXCEPT !.logs = <<log_error(v, code, message)>> \o @]
        r2 == send_header(r1, "Connection", "close")
        r3 == send_header(r2, "Content-Type", "text/html;charset=utf-8")
        r4 == send_header(r3, "Content-Length", "len")
    IN  end_headers(v, hd, r4,
                    IF req.method = "HEAD" /\ hd.hasPath
                    THEN Body("empty", <<>>)
                    ELSE Body("error", <<>>))

----------------------------------------------------------------------------
(* MIME type resolution.                                                   *)

\* Variant A, guess_type(path).  super().guess_type(path) returns one str
\* (SimpleHTTPRequestHandler.guess_type), and line 32 unpacks it into two
\* names: that raises ValueError unless the str has exactly two characters,
\* in which case the override table would be reached and a tuple returned.
guess_type_A(fpath, generic) ==
    IF Len(generic) # 2 THEN [ok |-> FALSE, exc |-> "ValueError"]
    ELSE IF EndsWith(fpath, S_js)
         THEN [ok |-> TRUE, ctype |-> <<"application/javascript", "enc">>]
    ELSE IF EndsWith(fpath, S_ts)
         THEN [ok |-> TRUE, ctype |-> <<"application/typescript", "enc">>]
    ELSE IF EndsWith(fpath, S_json)
         THEN [ok |-> TRUE, ctype |-> <<"application/json", "enc">>]
    ELSE [ok |-> TRUE, ctype |-> <<"mimetype", "enc">>]

\* Variant B does not override guess_type: the inherited lookup's result.
guess_type_B(fpath, generic) == [ok |-> TRUE, ctype |-> generic]

guess_type(v, fpath, generic) ==
    IF v = "A" THEN guess_type_A(fpath, generic)
    ELSE guess_type_B(fpath, generic)

----------------------------------------------------------------------------
(* Serving.                                                                *)

\* The inherited send_head for a regular path: guess_type first, then the
\* trailing-slash test, then open().
ServeFile(v, hd, req, fpath, exists, generic) ==
    LET g == guess_type(v, fpath, generic)
    IN  IF ~g.ok THEN Crash(g.exc, 0, <<>>)
        ELSE IF EndsWith(fpath, S_slash) \/ ~exists
             THEN send_error(v, hd, req, 404, "File not found")
        ELSE LET r0 == send_response(v, req, 200)
                 r1 == send_header(r0, "Content-type", g.ctype)
                 r2 == send_header(r1, "Content-Length", "len")
                 r3 == send_header(r2, "Last-Modified", "mtime")
             IN  end_headers(v, hd, r3,
                             IF req.method = "HEAD" THEN Body("empty", <<>>)
                             ELSE Body("file", fpath))

\* The inherited send_head, common to GET and HEAD.
send_head(v, hd, req, fsys, generic) ==
    LET comp == PathComponent(hd.path)
        kind == Kind(fsys, comp)
    IN  IF kind = "dir"
        THEN IF ~EndsWith(comp, S_slash)
             THEN LET r0 == send_response(v, req, 301)
                      r1 == send_header(r0, "Location", "slash")
                      r2 == send_header(r1, "Content-Length", "0")
                  IN  end_headers(v, hd, r2, Body("empty", <<>>))
             ELSE IF fsys.index
                  THEN ServeFile(v, hd, req, comp \o IndexHtml, TRUE, generic)
             ELSE \* list_directory
                  LET r0 == send_response(v, req, 200)
                      r1 == send_header(r0, "Content-type",
                                        "text/html; charset=utf-8")
                      r2 == send_header(r1, "Content-Length", "len")
                  IN  end_headers(v, hd, r2,
                                  IF req.method = "HEAD"
                                  THEN Body("empty", <<>>)
                                  ELSE Body("listing", comp))
        ELSE ServeFile(v, hd, req, comp, kind = "file", generic)

\* do_GET.  Variant B rewrites self.path when it is exactly "/"; Variant A
\* inherits do_GET.  The result is the handler after the assignment.
do_GET(v, hd) ==
    IF v = "B" /\ hd.path = P_root THEN [hd EXCEPT !.path = P_main]
    ELSE hd

\* Neither variant overrides do_HEAD.
do_HEAD(v, hd) == hd

\* handle_one_request on handler hd: the handler afterwards, and what it
\* did.  parse_request answers a bad version before assigning self.path.
handle(v, hd, req, fsys, generic) ==
    IF req.version # "HTTP/1.1"
    THEN [hd |-> hd,
          resp |-> send_error(v, hd, req, 400, "Bad request version")]
    ELSE LET h1 == [hd EXCEPT !.hasPath = TRUE, !.path = req.target]
         IN  IF req.method \notin Supported
             THEN [hd |-> h1,
                   resp |-> send_error(v, h1, req, 501, "Unsupported method")]
             ELSE LET h2 == IF req.method = "GET" THEN do_GET(v, h1)
                            ELSE do_HEAD(v, h1)
                  IN  [hd |-> h2,
                       resp |-> send_head(v, h2, req, fsys, generic)]

----------------------------------------------------------------------------
(* The server process.                                                     *)

\* The errno the Variant B handler compares against ("Address already in
\* use" on macOS and the BSDs).
ErrnoChecked == 48

\* OSError raised by the TCPServer constructor: the port is taken (errno 48
\* on macOS/BSD, 98 on Linux) or some other bind failure (13, EACCES).
BindErrors == {[errno |-> 48, inUse |-> TRUE],
               [errno |-> 98, inUse |-> TRUE],
               [errno |-> 13, inUse |-> FALSE]}

NoBindError == [errno |-> 0, inUse |-> FALSE]

\* What main() prints when the constructor raises e.
StartupFailureOutput(v, e) ==
    IF v = "B" /\ e.errno = ErrnoChecked THEN <<"port-in-use", "port-hint">>
    ELSE <<"startup-failed">>

\* Mutant of ExitStatusAfterInterrupt: Variant B's sys.exit(1) is reached
\* after the KeyboardInterrupt handler too.
ExitStatusAfterInterrupt_Fallthrough(v) == IF v = "B" THEN 1 ELSE 0

\* Exit status after the KeyboardInterrupt handler: sys.exit(0) in
\* Variant A; in Variant B main() returns and the interpreter exits 0.
ExitStatusAfterInterrupt(v) == 0

\* Mutant of NewHandler: the path attribute outlives the request that set
\* it, and a new handler starts with the path of an earlier request.
NewHandler_Stale(old) ==
    IF prev.some
    THEN [phase |-> "accepted", hasPath |-> TRUE, path |-> prev.target]
    ELSE [phase |-> "accepted", hasPath |-> FALSE, path |-> <<>>]

\* A new handler object is constructed for every accepted connection; it
\* has no path attribute until parse_request assigns one.
NewHandler(old) == [phase |-> "accepted", hasPath |-> FALSE, path |-> <<>>]

\* Mutant of CanAccept: requests are handed to threads and the loop goes
\* straight back to accept().
CanAccept_Threaded == TRUE

\* TCPServer.serve_forever calls the handler synchronously: it returns to
\* accept() only when the previous request has been shut down.
CanAccept == active = 0

\* The headers the overridden end_headers added: everything from the first
\* CORS header on (the inherited end_headers adds none).
RECURSIVE PolicyOf(_)
PolicyOf(hs) ==
    IF hs = <<>> \/ Head(hs)[1] = "Access-Control-Allow-Origin" THEN hs
    ELSE PolicyOf(Tail(hs))

NoPrev == [some |-> FALSE]

\* No handler object exists between requests.
NoHandler == [phase |-> "none", hasPath |-> FALSE, path |-> <<>>]

Summary(hd) ==
    [some |-> TRUE, method |-> hd.req.method, target |-> hd.req.target,
     policy |-> PolicyOf(hd.resp.headers)]

Init ==
    /\ variant \in {"A", "B"}
    /\ pc = "start"
    /\ sock = FALSE
    /\ out = <<>>
    /\ exitCode = <<>>
    /\ bindErr = NoBindError
    /\ backlog = 0
    /\ active = 0
    /\ h = NoHandler
    /\ prev = NoPrev

\* main(): the banner, then TCPServer binds and listens and serve_forever
\* is entered (Variant A prints one more line in between).
StartOK ==
    /\ pc = "start"
    /\ out' = out \o <<"banner">>
                  \o (IF variant = "A" THEN <<"running">> ELSE <<>>)
    /\ sock' = TRUE
    /\ pc' = "serving"
    /\ UNCHANGED <<variant, exitCode, bindErr, backlog, active, h, prev>>

\* main(): the banner, then the TCPServer constructor raises OSError e; the
\* except clause prints and calls sys.exit(1).
StartFail(e) ==
    /\ pc = "start"
    /\ out' = out \o <<"banner">> \o StartupFailureOutput(variant, e)
    /\ bindErr' = e
    /\ exitCode' = <<1>>
    /\ pc' = "exited"
    /\ UNCHANGED <<variant, sock, backlog, active, h, prev>>

\* A client connects; the kernel queues the connection.
Connect ==
    /\ sock
    /\ backlog < MaxBacklog
    /\ backlog' = backlog + 1
    /\ UNCHANGED <<variant, pc, sock, out, exitCode, bindErr, active, h, prev>>

\* serve_forever: get_request and the construction of the handler.
Accept ==
    /\ pc = "serving"
    /\ backlog > 0
    /\ CanAccept
    /\ backlog' = backlog - 1
    /\ active' = active + 1
    /\ h' = NewHandler(h)
    /\ UNCHANGED <<variant, pc, sock, out, exitCode, bindErr, prev>>

\* The handler reads the request line and serves it.
Handle(req, fsys, generic) ==
    /\ pc = "serving"
    /\ h.phase = "accepted"
    /\ LET r == handle(variant, [hasPath |-> h.hasPath, path |-> h.path],
                       req, fsys, generic)
       IN  h' = [phase |-> "handled", hasPath |-> r.hd.hasPath,
                 path |-> r.hd.path, req |-> req, fsys |-> fsys,
                 generic |-> generic, resp |-> r.resp]
    /\ UNCHANGED <<variant, pc, sock, out, exitCode, bindErr, backlog,
                   active, prev>>

\* shutdown_request: the connection is closed and the handler dropped.
\* prev keeps, or not, a summary of the answered request for comparison
\* with later ones.
Finish ==
    /\ pc = "serving"
    /\ h.phase = "handled"
    /\ active' = active - 1
    /\ h' = NoHandler
    /\ prev' \in {prev} \cup (IF h.resp.sent THEN {Summary(h)} ELSE {})
    /\ UNCHANGED <<variant, pc, sock, out, exitCode, bindErr, backlog>>

\* Ctrl+C while serve_forever runs: KeyboardInterrupt propagates out of the
\* loop; a request being handled is shut down on the way.
Interrupt ==
    /\ pc = "serving"
    /\ pc' = "interrupted"
    /\ active' = 0
    /\ h' = IF h.phase \in {"accepted", "handled"}
            THEN NoHandler
            ELSE h
    /\ UNCHANGED <<variant, sock, out, exitCode, bindErr, backlog, prev>>

\* Leaving the with block: server_close() closes the listening socket.
ServerClose ==
    /\ pc = "interrupted"
    /\ sock' = FALSE
    /\ backlog' = 0
    /\ pc' = "closed"
    /\ UNCHANGED <<variant, out, exitCode, bindErr, active, h, prev>>

\* except KeyboardInterrupt: the shutdown message.
PrintStopped ==
    /\ pc = "closed"
    /\ out' = Append(out, "stopped")
    /\ pc' = "stopped"
    /\ UNCHANGED <<variant, sock, exitCode, bindErr, backlog, active, h, prev>>

\* The process ends.
Exit ==
    /\ pc = "stopped"
    /\ exitCode' = <<ExitStatusAfterInterrupt(variant)>>
    /\ pc' = "exited"
    /\ UNCHANGED <<variant, sock, out, bindErr, backlog, active, h, prev>>

Next ==
    \/ StartOK
    \/ \E e \in BindErrors : StartFail(e)
    \/ Connect
    \/ Accept
    \/ \E i \in Inputs : Handle(i.req, i.fsys, i.generic)
    \/ Finish
    \/ Interrupt
    \/ ServerClose
    \/ PrintStopped
    \/ Exit

Spec == Init /\ [][Next]_vars

\* Once interrupted, main() runs on to its end: the interpreter keeps
\* executing the single thread.
FairSpec ==
    Spec /\ WF_vars(ServerClose) /\ WF_vars(PrintStopped) /\ WF_vars(Exit)

----------------------------------------------------------------------------
(* Properties.                                                             *)

Handled == h.phase = "handled"

\* A response was written to the client.
Sent == Handled /\ h.resp.sent

HasHeader(hs, name, value) == \E i \in 1..Len(hs) : hs[i] = <<name, value>>

\* The values of the headers named in names, in order.
RECURSIVE ValuesOf(_, _)
ValuesOf(hs, names) ==
    IF hs = <<>> THEN <<>>
    ELSE (IF Head(hs)[1] \in names THEN <<Head(hs)[2]>> ELSE <<>>)
         \o ValuesOf(Tail(hs), names)

\* Header names are case-insensitive: the inherited code writes
\* "Content-type" for files and listings, "Content-Type" for error pages.
ContentTypeNames == {"Content-type", "Content-Type"}

\* The extension of a path: its suffix from the last "." on, if any.
RECURSIVE Ext(_)
Ext(p) ==
    IF p = <<>> THEN <<>>
    ELSE IF Ext(Tail(p)) # <<>> THEN Ext(Tail(p))
    ELSE IF Head(p) = "." THEN p
    ELSE <<>>

\* The Cache-Control tables of the two variants, by extension.
CacheTable(v, ext) ==
    IF v = "A"
    THEN (IF ext = S_js THEN <<"no-cache">> ELSE <<>>)
    ELSE IF ext \in {S_js, S_css, S_svg, S_png, S_jpg}
         THEN <<"public, max-age=31536000">>
    ELSE IF ext = S_html THEN <<"no-cache">>
    ELSE <<>>

\* C1: every response sent, whatever the path and the status, carries the
\* three CORS headers.
C1_CorsOnEveryResponse ==
    Sent =>
        /\ HasHeader(h.resp.headers, "Access-Control-Allow-Origin", "*")
        /\ HasHeader(h.resp.headers, "Access-Control-Allow-Methods",
                     "GET, POST, OPTIONS")
        /\ HasHeader(h.resp.headers, "Access-Control-Allow-Headers",
                     "Content-Type")

\* C1 witness: an error response (404) was sent and carries the headers.
C1_Witness ==
    /\ Sent
    /\ h.resp.status = 404
    /\ HasHeader(h.resp.headers, "Access-Control-Allow-Headers",
                 "Content-Type")

\* What a client can tell two responses apart by, the request line aside:
\* status, body and the policy headers.
Observable(resp) ==
    [sent |-> resp.sent, status |-> resp.status, body |-> resp.body,
     policy |-> PolicyOf(resp.headers)]

\* The response a new handler gives to the request for /main.html that
\* differs from h.req in its path only, on the same file system.
AsMainHtml ==
    handle(variant, [hasPath |-> FALSE, path |-> <<>>],
           [h.req EXCEPT !.target = P_main], h.fsys, h.generic).resp

\* C2: in Variant B a request for exactly "/" is served as the same request
\* for "/main.html" is (status, body, policy headers), for every method the
\* server serves (GET and HEAD); in Variant A "/" is never rewritten.
C2_RootServedAsMainHtml ==
    (/\ Handled
     /\ h.req.target = P_root
     /\ h.req.version = "HTTP/1.1"
     /\ h.req.method \in Supported)
    => IF variant = "B"
       THEN Observable(h.resp) = Observable(AsMainHtml)
       ELSE h.path = P_root

\* The path a request is served under: the request path, except that
\* Variant B serves GET "/" as "/main.html".
ServedPath ==
    IF variant = "B" /\ h.req.method = "GET" /\ h.req.target = P_root
    THEN P_main
    ELSE h.req.target

CacheControlSent == ValuesOf(h.resp.headers, {"Cache-Control"})

\* C3 as stated: the Cache-Control header of every response is the one the
\* variant's table gives for the extension of the request path, and absent
\* when the table has no entry.
C3_CacheControlByRequestPath ==
    Sent => CacheControlSent = CacheTable(variant, Ext(h.req.target))

\* C3 amended: the Cache-Control header of every response is the one the
\* variant's table gives for the extension of the path the request is
\* served under (query string included; "/main.html" for Variant B's
\* GET "/"), absent when the table has no entry, and never repeated.
C3_CacheControlByServedPath ==
    Sent =>
        /\ CacheControlSent = CacheTable(variant, Ext(ServedPath))
        /\ Len(CacheControlSent) <= 1

\* C3 witness: Variant B answered GET "/" with Cache-Control: no-cache.
C3_Witness ==
    /\ Sent
    /\ variant = "B"
    /\ h.req.method = "GET"
    /\ h.req.target = P_root
    /\ CacheControlSent = <<"no-cache">>

\* The override table of the specification, by extension of the file.
MimeOverride(v, ext) ==
    IF ext = S_js THEN <<"application/javascript">>
    ELSE IF ext = S_ts THEN <<"application/typescript">>
    ELSE IF ext = S_json THEN <<"application/json">>
    ELSE IF v = "B" /\ ext = S_svg THEN <<"image/svg+xml">>
    ELSE <<>>

\* The request is for a regular file that exists.
FileRequested ==
    /\ Handled
    /\ h.req.version = "HTTP/1.1"
    /\ h.req.method \in Supported
    /\ Kind(h.fsys, PathComponent(h.path)) = "file"
    /\ ~EndsWith(PathComponent(h.path), S_slash)

\* C4: the MIME type of a served file is the override table's entry for
\* its extension (.js, .ts, .json, and .svg in Variant B), whatever the
\* generic lookup returns, and the generic lookup's result otherwise.
C4_MimeOverrideFirst ==
    FileRequested =>
        /\ h.resp.sent
        /\ ValuesOf(h.resp.headers, ContentTypeNames) =
              (IF MimeOverride(variant, Ext(PathComponent(h.path))) # <<>>
               THEN MimeOverride(variant, Ext(PathComponent(h.path)))
               ELSE <<h.generic>>)

Printed(line) == \E i \in 1..Len(out) : out[i] = line

\* C5: when the port is already bound, startup fails without serving:
\* the message for "address in use" is printed, not the one for other
\* bind failures, and the process exits with status 1.
C5_AddressInUseReported ==
    (pc = "exited" /\ bindErr.inUse) =>
        /\ exitCode = <<1>>
        /\ ~sock
        /\ ~Printed("running")
        /\ Printed("port-in-use")
        /\ ~Printed("startup-failed")

\* C6: an interrupt during the serving loop leads to the listening socket
\* being closed, then the shutdown message, then exit status 0; once the
\* message is printed the socket is closed and no connection is accepted.
C6_CleanShutdown ==
    /\ (pc = "interrupted") ~>
           (pc = "exited" /\ exitCode = <<0>> /\ ~sock /\ Printed("stopped"))
    /\ [](Printed("stopped") => ~sock)
    /\ [][Printed("stopped") => active' <= active]_vars

\* C6 witness: the process has exited with status 0 after an interrupt that
\* arrived while connections were waiting.
C6_Witness ==
    /\ pc = "exited"
    /\ exitCode = <<0>>
    /\ Printed("stopped")
    /\ prev.some

AccessLine(l) == l.text.kind = "access"

\* C7 as stated: every handled request emits exactly one log line, which
\* carries a timestamp, the request line and the status.
C7_OneLogLine ==
    Handled =>
        /\ Len(h.resp.logs) = 1
        /\ h.resp.logs[1].timestamp
        /\ AccessLine(h.resp.logs[1])
        /\ h.resp.logs[1].text.requestline = h.req
        /\ h.resp.logs[1].text.status = h.resp.status

\* C7 amended: a request for which a status line is produced emits exactly
\* one access line (timestamp, request line, status), as its last line; an
\* error status (400 and above) puts one error line, with a timestamp and
\* the status, before it and no other status adds a line; a request whose
\* handler stops before any status line emits none.
C7_OneAccessLine ==
    Handled =>
        LET logs == h.resp.logs
            n == Len(logs)
        IN  IF h.resp.status = 0 THEN n = 0
            ELSE /\ n = (IF h.resp.status >= 400 THEN 2 ELSE 1)
                 /\ \A i \in 1..n : logs[i].timestamp
                 /\ AccessLine(logs[n])
                 /\ logs[n].text.requestline = h.req
                 /\ logs[n].text.status = h.resp.status
                 /\ n = 2 => /\ ~AccessLine(logs[1])
                             /\ logs[1].text.status = h.resp.status

\* C7 witness: Variant B answered 404 and logged two lines.
C7_Witness ==
    /\ Sent
    /\ variant = "B"
    /\ h.resp.status = 404
    /\ Len(h.resp.logs) = 2

\* C8: at most one request is in progress, and a connection is accepted
\* only when the previous request has been completed and shut down.
C8_OneAtATime ==
    /\ [](active <= 1 /\ (h.phase \in {"accepted", "handled"} => active = 1))
    /\ [][active' > active => (active = 0 /\ h.phase = "none")]_vars

\* C8 witness: a request has been answered and is not yet shut down while
\* another connection waits in the queue.
C8_Witness ==
    /\ Handled
    /\ active = 1
    /\ backlog > 0

\* C9 as stated: two answered requests with the same path carry the same
\* policy headers, whatever was handled in between.
C9_PolicyByPathAlone ==
    (Sent /\ prev.some /\ prev.target = h.req.target)
        => PolicyOf(h.resp.headers) = prev.policy

\* C9 amended: two answered requests with the same method and the same
\* path carry the same policy headers, whatever was handled before them,
\* and a handler starts without any path left by an earlier request.
C9_PolicyByMethodAndPath ==
    /\ (Sent /\ prev.some /\ prev.target = h.req.target
             /\ prev.method = h.req.method)
           => PolicyOf(h.resp.headers) = prev.policy
    /\ h.phase = "accepted" => ~h.hasPath

\* C9 witness: Variant B answers GET "/" for the second time, with the
\* policy headers of the first.
C9_Witness ==
    /\ Sent
    /\ variant = "B"
    /\ prev.some
    /\ prev.method = "GET" /\ h.req.method = "GET"
    /\ prev.target = P_root /\ h.req.target = P_root
    /\ PolicyOf(h.resp.headers) = prev.policy

\* C10: no response carries more than one Content-Type header.
C10_OneContentType ==
    Sent => Len(ValuesOf(h.resp.headers, ContentTypeNames)) <= 1

====
